---- MODULE Spec2Model ----
(***************************************************************************)
(* Model of ComfyUI-PromptGenerator, nodes/prompt_generator_node.py:       *)
(* PromptGeneratorNode.generate, the streaming controller                  *)
(* _generate_with_streaming, the health probe _check_ollama_health and the *)
(* sanitizer extract_final_prompt.  Modelled on their own: the probe, call *)
(* by call (ProbeSpec); the model-list cache _get_available_models, one    *)
(* attribute access per step (FetchSpec, CacheSpec, ConcurrentCacheSpec);  *)
(* generate against a backend that answers with a reasoning block          *)
(* (ReasoningSpec) or with a long stream (LongStreamSpec); repeated        *)
(* sanitizing (SanitizerSpec); the controller's loop with its fetch        *)
(* threads as processes (ThreadSpec).  The cache works in whole seconds of *)
(* time.time().                                                            *)
(*                                                                         *)
(* Strings are sequences of one-character strings.  Times are integers in  *)
(* tenths of a second, so that timeout * 0.6 is exact for every integer    *)
(* timeout; time.monotonic() at the start of the controller is 0.          *)
(***************************************************************************)
EXTENDS Integers, Sequences, FiniteSets, TLC

\* ------------------------------------------------------------------ bounds
\* Longest text handed to extract_final_prompt on its own.
MaxText == 5

\* Fetch threads one controller starts at most in the thread-level view.
MaxFetches == 4

\* Fragments of the long stream, enough for the progress to reach its cap.
ManyFragments == 47


\* Most fragments one stream delivers before it must end, fail or hang.
MaxChunks == 2

\* Most models the backend reports resident at once.
MaxResident == 2

\* Most entries in one answer of ollama.list().
MaxModels == 3

\* Most advances of time.time() in one behaviour of the model-list cache.
MaxTicks == 4

\* ------------------------------------------------------- string primitives

Min(a, b) == IF a <= b THEN a ELSE b

\* Characters matched by \s and removed by str.strip().
Whitespace == {" ", "\n"}

\* s[i:] starts with lit.
MatchAt(s, i, lit) ==
    /\ i + Len(lit) - 1 <= Len(s)
    /\ SubSeq(s, i, i + Len(lit) - 1) = lit

\* str.startswith
StartsWith(s, prefix) == MatchAt(s, 1, prefix)

\* Index of the first character at or after i that is not whitespace.
RECURSIVE SkipWs(_, _)
SkipWs(s, i) ==
    IF i <= Len(s) /\ s[i] \in Whitespace THEN SkipWs(s, i + 1) ELSE i

\* Index of the first character at or after i that is not in cs.
RECURSIVE SkipChars(_, _, _)
SkipChars(s, i, cs) ==
    IF i <= Len(s) /\ s[i] \in cs THEN SkipChars(s, i + 1, cs) ELSE i

\* Index of the last character at or before j that is not in cs (0 if none).
RECURSIVE SkipCharsBack(_, _, _)
SkipCharsBack(s, j, cs) ==
    IF j >= 1 /\ s[j] \in cs THEN SkipCharsBack(s, j - 1, cs) ELSE j

\* str.strip(chars)
StripChars(s, cs) ==
    SubSeq(s, SkipChars(s, 1, cs), SkipCharsBack(s, Len(s), cs))

\* str.strip()
Strip(s) == StripChars(s, Whitespace)

\* "".join(parts)
RECURSIVE Join(_)
Join(parts) ==
    IF parts = <<>> THEN <<>> ELSE Head(parts) \o Join(Tail(parts))

\* Smallest index j >= i at which lit occurs in s, 0 if there is none.
RECURSIVE FindFrom(_, _, _)
FindFrom(s, i, lit) ==
    IF i + Len(lit) - 1 > Len(s) THEN 0
    ELSE IF MatchAt(s, i, lit) THEN i
    ELSE FindFrom(s, i + 1, lit)

\* s.split(sep)[0] for a one-character separator.
SplitHead(s, sep) ==
    LET j == FindFrom(s, 1, <<sep>>)
    IN  IF j = 0 THEN s ELSE SubSeq(s, 1, j - 1)

\* ------------------------------------------------- extract_final_prompt

ThinkingStart == <<"T", "h", "i", "n", "k", "i", "n", "g", ".", ".", ".">>
ThinkingEnd == <<".", ".", ".", "d", "o", "n", "e", " ", "t", "h", "i", "n", "k", "i", "n", "g", ".">>
PromptLabel == <<"*", "*", "P", "r", "o", "m", "p", "t", ":", "*", "*">>
SDPromptLabel == <<"*", "*", "S", "t", "a", "b", "l", "e", " ", "D", "i", "f", "f", "u", "s", "i", "o", "n", " ", "P", "r", "o", "m", "p", "t", ":", "*", "*">>
ImagePromptLabel == <<"*", "*", "P", "r", "o", "m", "p", "t", " ", "f", "o", "r", " ", "I", "m", "a", "g", "e", " ", "G", "e", "n", "e", "r", "a", "t", "i", "o", "n", ":", "*", "*">>
NoneToken == <<"N", "o", "n", "e">>

\* Thinking\.\.\.[\s\S]*?\.\.\.done thinking\.[\s]*
ThinkingMatchEnd(s, i) ==
    IF ~MatchAt(s, i, ThinkingStart) THEN 0
    ELSE LET j == FindFrom(s, i + Len(ThinkingStart), ThinkingEnd)
         IN  IF j = 0 THEN 0 ELSE SkipWs(s, j + Len(ThinkingEnd))

\* \*\*(?:Stable Diffusion )?Prompt:\*\*\s*
PromptLabelMatchEnd(s, i) ==
    IF MatchAt(s, i, SDPromptLabel) THEN SkipWs(s, i + Len(SDPromptLabel))
    ELSE IF MatchAt(s, i, PromptLabel) THEN SkipWs(s, i + Len(PromptLabel))
    ELSE 0

\* \*\*Prompt for Image Generation:\*\*\s*
ImageLabelMatchEnd(s, i) ==
    IF MatchAt(s, i, ImagePromptLabel)
    THEN SkipWs(s, i + Len(ImagePromptLabel))
    ELSE 0

\* \s*None\s*
NoneMatchEnd(s, i) ==
    LET k == SkipWs(s, i)
    IN  IF MatchAt(s, k, NoneToken) THEN SkipWs(s, k + Len(NoneToken)) ELSE 0

\* Index after the match of one of the four patterns at s[i], 0 if none.
PatternMatchEnd(pattern, s, i) ==
    CASE pattern = "thinking" -> ThinkingMatchEnd(s, i)
      [] pattern = "prompt_label" -> PromptLabelMatchEnd(s, i)
      [] pattern = "image_label" -> ImageLabelMatchEnd(s, i)
      [] pattern = "none" -> NoneMatchEnd(s, i)

\* re.sub(pattern, "", s): scanning from the left, a match starting at s[i]
\* is dropped and the scan goes on after it; otherwise s[i] is kept (no
\* pattern used here matches the empty string).
ReSub(pattern, s) ==
    LET rest[i \in 1..(Len(s) + 1)] ==
            IF i > Len(s) THEN <<>>
            ELSE LET e == PatternMatchEnd(pattern, s, i)
                 IN  IF e > 0 THEN rest[e] ELSE <<s[i]>> \o rest[i + 1]
    IN  rest[1]

\* The element of a one-element set.  A pipeline of string operations is
\* written as nested images {F(x) : x \in {e}}, so that every intermediate
\* string is computed once.
Only(S) == CHOOSE r \in S : TRUE

\* text.strip().strip('"').strip()
StripQuoted(text) ==
    Only({Strip(b) : b \in {StripChars(a, {"\""}) : a \in {Strip(text)}}})

\* Lines 48-66: the four substitutions in order, then the trimming.
extract_final_prompt(text) ==
    IF text = <<>> THEN text
    ELSE Only({StripQuoted(t4) :
               t4 \in {ReSub("none", t3) :
               t3 \in {ReSub("image_label", t2) :
               t2 \in {ReSub("prompt_label", t1) :
               t1 \in {ReSub("thinking", t0) : t0 \in {text}}}}}})

\* ------------------------------------------------------------ input sets

\* Descriptions handed to generate: empty, whitespace only, and a real one.
DescriptionChoices == {<<>>, <<" ", "\n">>, <<" ", "a">>}

\* Keys of DEFAULT_STYLES, the templates loaded by __init__.
StyleKeys ==
    {"cinematic", "anime", "photorealistic", "fantasy", "abstract",
     "cyberpunk", "sci-fi", "video_wan"}

\* Style arguments: a loaded key and one that is not loaded.
StyleChoices == {"anime", "retro"}

\* Timeouts in seconds, within the declared range 30..600.
TimeoutChoices == {31, 470}

\* Requested model id.
ModelChoices == {<<"q", ":", "8">>}

\* Lists of resident models ollama.ps() may report.
RunningChoices == {<<>>, << <<"q", ":", "4">> >>, << <<"l">> >>}

\* Texts a stream fragment ("response") may carry.
FragmentTexts == {<<>>, <<"a">>, <<" ">>, NoneToken}

\* Texts the subprocess may write to stdout or stderr.
ProcessTexts == {<<>>, <<" ", "a", "\n">>, NoneToken}

\* Progress sink: no bar (comfy.utils missing or unique_id None), a bar whose
\* calls succeed, or a bar whose calls may raise.
SinkKinds == {"absent", "working", "faulty"}

\* Seconds to tenths of a second.
Tenths(seconds) == 10 * seconds


\* ------------------------------------------------------------------ state

VARIABLES
    description, style, model, timeout, include_reasoning, \* arguments
    sinkKind,          \* behaviour of comfy.utils.ProgressBar for this call
    apiAvailable,      \* OLLAMA_API_AVAILABLE
    pc,                \* position in generate
    prompt,            \* rendered prompt, NoPrompt before rendering
    pbar,              \* pbar is not None
    progress,          \* values the sink accepted, in order
    sinkRaised,        \* where a sink call raised: "none", "init", ...
    health,            \* (is_healthy, is_model_loaded) of the probe
    effective_timeout, \* timeout handed to the controller, seconds
    calls,             \* backend calls issued so far
    now,               \* time.monotonic() - start, tenths of a second
    elapsed,           \* the clock as read at line 517
    chunks, got_first_chunk, chunk_count, wait_time,
    fetchThread,       \* "none", "running", "finished", "abandoned", "late"
    result_holder,
    delivered,         \* texts of the fragments the iterator has yielded
    streamEnd,         \* how the controller ended
    output,            \* return value of _generate_with_streaming
    result,            \* tuple returned by generate, <<>> before it returns
    hostRaised,        \* an exception left generate
    runOutcome,        \* how subprocess.run ended, NoRun before it is called
    script             \* the text the backend is set to produce, or NoScript

\* State of one call of _check_ollama_health taken on its own.
VARIABLES
    probePc,           \* position in _check_ollama_health
    running_models,    \* identifiers ollama.ps() reports when it answers
    probeAnswers,      \* how each call of ollama.list() / ollama.ps() ended
    probeReturn        \* (is_healthy, is_model_loaded) returned, else NoHealth

probeVars ==
    <<probePc, running_models, probeAnswers, probeReturn>>

\* State of _get_available_models: the class attributes, the wall clock and
\* the calls in progress.
VARIABLES
    cached_models,     \* cls._cached_models: NoList (None) or Stored(list)
    cache_time,        \* cls._cache_time, seconds
    clock,             \* time.time(), seconds
    call,              \* per calling thread: position and locals of the call
    lastStore          \* the latest assignment to cls._cached_models

cacheVars ==
    <<cached_models, cache_time, clock, call, lastStore>>

\* State of a caller that applies extract_final_prompt to a text and then to
\* what it got back.
VARIABLES
    raw_output,        \* the text first handed to extract_final_prompt
    extracted          \* the values returned so far, in order

sanitizerVars ==
    <<raw_output, extracted>>

\* State of the loop of _generate_with_streaming seen thread by thread.
VARIABLES
    loopPc,            \* position of the controller in the loop
    fetchThreads,      \* per thread started, in order: "running", "terminated"
    holder,            \* result_holder: what it holds and which thread wrote it
    holderReads,       \* the holder contents the controller has read
    loopReturn         \* how the controller left, "none" while it runs

threadVars ==
    <<loopPc, fetchThreads, holder, holderReads, loopReturn>>

\* State of the operations that generate does not run.
outside == <<probeVars, cacheVars, sanitizerVars, threadVars>>

inputs ==
    <<description, style, model, timeout, include_reasoning, sinkKind,
      apiAvailable, script>>

ctrl ==
    <<now, elapsed, chunks, got_first_chunk, chunk_count, wait_time,
      fetchThread, result_holder, delivered, streamEnd, output>>

generateVars ==
    <<inputs, pc, prompt, pbar, progress, sinkRaised, health,
      effective_timeout, calls, ctrl, result, hostRaised, runOutcome>>

vars == <<generateVars, outside>>

\* What a step of _get_available_models leaves alone.
notCache == <<generateVars, probeVars, sanitizerVars, threadVars>>

NoPrompt == [template |-> "", description |-> <<>>]
NoHealth == [probed |-> FALSE, healthy |-> FALSE, loaded |-> FALSE]
EmptyDict == [k \in {} |-> TRUE]

\* subprocess.run has not been called.
NoRun == [kind |-> "none", text |-> <<>>]

\* The backend is free to produce any of FragmentTexts and ProcessTexts.
NoScript == [parts |-> <<>>, body |-> <<>>]

\* Return values of _generate_with_streaming: None, or a text.
None == [isNone |-> TRUE, text |-> <<>>]
Text(t) == [isNone |-> FALSE, text |-> t]

\* generate has not been entered.
GenerateStart ==
    /\ pc = "start"
    /\ prompt = NoPrompt
    /\ pbar = FALSE
    /\ progress = <<>>
    /\ sinkRaised = "none"
    /\ health = NoHealth
    /\ effective_timeout = 0
    /\ calls = [list |-> 0, ps |-> 0, generate |-> 0, run |-> 0]
    /\ now = 0
    /\ elapsed = 0
    /\ chunks = <<>>
    /\ got_first_chunk = FALSE
    /\ chunk_count = 0
    /\ wait_time = 0
    /\ fetchThread = "none"
    /\ result_holder = EmptyDict
    /\ delivered = <<>>
    /\ streamEnd = "none"
    /\ output = None
    /\ result = <<>>
    /\ hostRaised = FALSE
    /\ runOutcome = NoRun

\* No call of the probe on its own.
ProbeIdle ==
    /\ probePc = "idle"
    /\ running_models = <<>>
    /\ probeAnswers = [list |-> <<>>, ps |-> <<>>]
    /\ probeReturn = NoHealth

\* Values of cls._cached_models: None, or a list that was assigned to it.
NoList == [stored |-> FALSE, models |-> <<>>]
Stored(list) == [stored |-> TRUE, models |-> list]

\* Threads that may call _get_available_models (through INPUT_TYPES).
Callers == {"t1", "t2"}

\* A thread that is not inside _get_available_models.  entry is the value of
\* the class attributes when the call was entered, now the value read from
\* time.time() at line 230, fetched the identifiers read from the answer of
\* ollama.list(), models the local list, contacts the number of ollama.list()
\* calls made, returned the value returned and path the return statement
\* taken.
IdleCall ==
    [pc |-> "idle", entry |-> [cached |-> NoList, time |-> 0], now |-> 0,
     fetched |-> <<>>, models |-> <<>>, contacts |-> 0, returned |-> <<>>,
     path |-> "none"]

\* The class attributes as the class body sets them (lines 216-217), nobody
\* calling.
CacheIdle ==
    /\ cached_models = NoList
    /\ cache_time = 0
    /\ clock = 0
    /\ call = [t \in Callers |-> IdleCall]
    /\ lastStore = [by |-> "none", models |-> <<>>]

\* result_holder after clear(), or before the loop.
ClearedHolder == [kind |-> "empty", by |-> 0]

\* The thread-level view of the loop is not running.
ThreadIdle ==
    /\ loopPc = "idle"
    /\ fetchThreads = <<>>
    /\ holder = ClearedHolder
    /\ holderReads = <<>>
    /\ loopReturn = "none"

\* No text has been handed to extract_final_prompt outside generate.
SanitizerIdle ==
    /\ raw_output = <<>>
    /\ extracted = <<>>

Init ==
    /\ description \in DescriptionChoices
    /\ style \in StyleChoices
    /\ model \in ModelChoices
    /\ timeout \in TimeoutChoices
    /\ include_reasoning \in BOOLEAN
    /\ sinkKind \in SinkKinds
    /\ apiAvailable \in BOOLEAN
    /\ script = NoScript
    /\ GenerateStart
    /\ ProbeIdle
    /\ CacheIdle
    /\ SanitizerIdle
    /\ ThreadIdle

\* ------------------------------------------------------- pure helpers

\* Diagnostics returned by generate (the leading warning sign is left out).
\* A returned string is a sequence whose elements are characters or literal
\* pieces of a diagnostic; it is empty exactly when the Python string is.
DiagEmptyDescription == <<"Please enter an image description.">>
DiagEmptyResult == <<"Generation returned empty result.">>
DiagOllamaError(stderr) == <<"Ollama error: ">> \o stderr
DiagTimedOut(t) == <<"Generation timed out after ", ToString(t), "s">>
DiagNotFound == <<"Ollama not found. Install from: https://ollama.ai">>
DiagError(e) == <<"Error: ", e>>

\* Variant: the description is tested without being stripped.
IsBlankNoStrip(d) == d = <<>>

\* not description.strip()
IsBlank(d) == Strip(d) = <<>>

\* Variant: the lookup has no default.
TemplateForNoDefault(s) == s

\* self.style_templates.get(style, self.DEFAULT_STYLES.get("cinematic"))
TemplateFor(s) == IF s \in StyleKeys THEN s ELSE "cinematic"

\* _render_template: the template chosen and the description substituted.
render_template(s, d) == [template |-> TemplateFor(s), description |-> d]

\* Variant: only an identical identifier counts as loaded.
IsLoadedExact(m, running) == \E k \in 1..Len(running) : m = running[k]

\* any(model == rm or model.startswith(rm.split(":")[0]) for rm in running)
IsLoaded(m, running) ==
    \E k \in 1..Len(running) :
        \/ m = running[k]
        \/ StartsWith(m, SplitHead(running[k], ":"))

\* _check_ollama_health, given how ollama.list() and ollama.ps() answer.
check_ollama_health(m, listOk, psOk, running) ==
    IF ~listOk THEN [probed |-> TRUE, healthy |-> FALSE, loaded |-> FALSE]
    ELSE IF ~psOk THEN [probed |-> TRUE, healthy |-> TRUE, loaded |-> FALSE]
    ELSE [probed |-> TRUE, healthy |-> TRUE, loaded |-> IsLoaded(m, running)]

\* Variant: the cold-start buffer is not capped at 600.
EffectiveTimeoutUncapped(t, h) ==
    IF h.healthy /\ ~h.loaded THEN (13 * t) \div 10 ELSE t

\* effective_timeout: min(int(timeout * 1.3), 600) on a cold start.
EffectiveTimeout(t, h) ==
    IF h.healthy /\ ~h.loaded THEN Min((13 * t) \div 10, 600) ELSE t

\* Variant: the first fragment is awaited for the whole total timeout.
FirstChunkTimeoutTotal(t) == Tenths(t)

\* first_chunk_timeout = min(timeout * 0.6, 90), in tenths of a second.
FirstChunkTimeout(t) == Min(6 * t, Tenths(90))

\* chunk_timeout = 30, in tenths of a second.
ChunkTimeout == 300

\* Variant: the wait is not capped by the remaining total budget.
WaitTimeUncapped(t, e, gotFirst) ==
    IF gotFirst THEN ChunkTimeout ELSE FirstChunkTimeout(t)

\* Variant: the first-fragment threshold is used in both phases.
WaitTimeFirstAlways(t, e, gotFirst) ==
    Min(FirstChunkTimeout(t), Tenths(t) - e)

\* wait_time of one loop iteration, in tenths of a second.
WaitTime(t, e, gotFirst) ==
    Min(IF gotFirst THEN ChunkTimeout ELSE FirstChunkTimeout(t),
        Tenths(t) - e)

\* elapsed >= timeout
TotalTimeoutReached(e, t) == e >= Tenths(t)

\* Variant: the streaming progress is not capped at 95.
StreamProgressUncapped(n) == 5 + n * 2

\* Variant: the fragment is put in front of the accumulator.
AccumulateFront(cs, text) == <<text>> \o cs

\* chunks.append(text)
Accumulate(cs, text) == Append(cs, text)

\* min(5 + int(chunk_count * 2), 95)
StreamProgress(n) == Min(5 + n * 2, 95)

\* Variant: an exception returns what was accumulated, as a break does.
ErrorResultPartial(cs) == IF cs = <<>> THEN None ELSE Text(Join(cs))

\* Lines 561-563: what the controller returns when an exception is caught.
ErrorResult(cs) == None

\* Lines 565-573: what the controller returns once the loop is left by break.
BreakResult(cs) == IF cs = <<>> THEN None ELSE Text(Join(cs))

\* output.strip(), then extract_final_prompt unless include_reasoning.
Sanitize(text, keep) ==
    Only({IF keep THEN t ELSE extract_final_prompt(t) : t \in {Strip(text)}})

\* Variant: the output is returned without the emptiness test.
ResultOfUnchecked(out) == <<out>>

\* (output,) if output else the empty-result diagnostic.
ResultOf(out) == IF out # <<>> THEN <<out>> ELSE <<DiagEmptyResult>>

\* Variant: the streaming block never returns.
NeedsFallbackAlways(out) == TRUE

\* generate goes on to subprocess.run after the streaming block.
NeedsFallback(out) == out.isNone

\* Time that passes from the start of a wait of w tenths to the next reading
\* of the clock when the item arrives within the wait: none, or the item
\* arrives a tenth before the deadline and the controller takes a tenth to
\* handle it.
Arrivals(w) == {0, w}

\* Outcomes of one call of pbar.update_absolute.
SinkOutcomes == IF sinkKind = "faulty" THEN {"ok", "raise"} ELSE {"ok"}

\* ---------------------------------------------------------------- generate

\* Lines 606-620: reject a blank description, else render the template.
Validate ==
    /\ pc = "start"
    /\ IF IsBlank(description)
       THEN /\ result' = <<DiagEmptyDescription>>
            /\ pc' = "done"
            /\ UNCHANGED prompt
       ELSE /\ prompt' = render_template(style, Strip(description))
            /\ pc' = "pbar_init"
            /\ UNCHANGED result
    /\ UNCHANGED <<outside, inputs, runOutcome, pbar, progress, sinkRaised, health,
                   effective_timeout, calls, ctrl, hostRaised>>

\* Lines 622-629: create the progress bar and report 0; an exception here
\* leaves pbar = None.
InitProgress ==
    /\ pc = "pbar_init"
    /\ \/ /\ sinkKind = "absent"
          /\ UNCHANGED <<pbar, progress, sinkRaised>>
       \/ /\ sinkKind # "absent"
          /\ \E o \in SinkOutcomes :
                IF o = "ok"
                THEN /\ pbar' = TRUE
                     /\ progress' = Append(progress, 0)
                     /\ UNCHANGED sinkRaised
                ELSE /\ sinkRaised' = "init"
                     /\ UNCHANGED <<pbar, progress>>
    /\ pc' = IF apiAvailable THEN "health" ELSE "fallback"
    /\ UNCHANGED <<outside, inputs, runOutcome, prompt, health, effective_timeout, calls, ctrl,
                   result, hostRaised>>

\* Lines 633-646: probe the backend, report 5, fix the effective timeout.
\* ollama.list() fails (ps is then not called), or it succeeds and ollama.ps()
\* fails or reports a list of resident models.  An exception of the sink at
\* line 639 is not caught.
HealthProbe ==
    /\ pc = "health"
    /\ \E listOk \in BOOLEAN, psOk \in BOOLEAN, running \in RunningChoices :
          /\ ~listOk => psOk
          /\ ~(listOk /\ psOk) => running = <<>>
          /\ health' = check_ollama_health(model, listOk, psOk, running)
          /\ calls' = [calls EXCEPT !.list = @ + 1,
                                    !.ps = @ + (IF listOk THEN 1 ELSE 0)]
    /\ \E o \in (IF pbar THEN SinkOutcomes ELSE {"ok"}) :
          IF o = "raise"
          THEN /\ sinkRaised' = "health"
               /\ hostRaised' = TRUE
               /\ pc' = "done"
               /\ UNCHANGED <<progress, effective_timeout>>
          ELSE /\ progress' = IF pbar THEN Append(progress, 5) ELSE progress
               /\ effective_timeout' = EffectiveTimeout(timeout, health')
               /\ pc' = "stream_open"
               /\ UNCHANGED <<sinkRaised, hostRaised>>
    /\ UNCHANGED <<outside, inputs, runOutcome, prompt, pbar, ctrl, result>>

\* Lines 484-512: start the clock and open the streaming call; an exception
\* raised by ollama.generate is caught at line 561.
StreamOpen ==
    /\ pc = "stream_open"
    /\ calls' = [calls EXCEPT !.generate = @ + 1]
    /\ now' = 0
    /\ chunks' = <<>>
    /\ got_first_chunk' = FALSE
    /\ chunk_count' = 0
    /\ \E ok \in BOOLEAN :
          IF ok
          THEN /\ pc' = "loop_top"
               /\ UNCHANGED <<streamEnd, output>>
          ELSE /\ streamEnd' = "error"
               /\ output' = ErrorResult(chunks')
               /\ pc' = "after_stream"
    /\ UNCHANGED <<outside, inputs, runOutcome, prompt, pbar, progress, sinkRaised, health,
                   effective_timeout, elapsed, wait_time, fetchThread,
                   result_holder, delivered, result, hostRaised>>

\* Lines 515-531: the total-timeout check, then the start of a fetch thread
\* and the computation of the wait.
LoopTop ==
    /\ pc = "loop_top"
    /\ elapsed' = now
    /\ IF TotalTimeoutReached(now, effective_timeout)
       THEN /\ streamEnd' = "total_timeout"
            /\ output' = BreakResult(chunks)
            /\ pc' = "after_stream"
            /\ UNCHANGED <<wait_time, fetchThread, result_holder>>
       ELSE /\ result_holder' = EmptyDict
            /\ fetchThread' = "running"
            /\ wait_time' = WaitTime(effective_timeout, now, got_first_chunk)
            /\ pc' = "join"
            /\ UNCHANGED <<streamEnd, output>>
    /\ UNCHANGED <<outside, inputs, runOutcome, prompt, pbar, progress, sinkRaised, health,
                   effective_timeout, calls, now, chunks, got_first_chunk,
                   chunk_count, delivered, result, hostRaised>>

\* Texts the next fragment of the stream may carry.
NextFragments ==
    IF script = NoScript THEN FragmentTexts
    ELSE IF Len(delivered) < Len(script.parts)
         THEN {script.parts[Len(delivered) + 1]}
         ELSE {}

\* Fragments the stream yields at most before it ends.
ChunkLimit ==
    IF script = NoScript THEN MaxChunks ELSE Len(script.parts)

\* Texts subprocess.run may capture from stdout.
StdoutTexts ==
    IF script = NoScript THEN ProcessTexts ELSE {Join(script.parts)}

\* Lines 502-506, 531-559: the thread gets a fragment before the join
\* expires; the controller accumulates its text and reports progress.  An
\* exception of the sink is caught at line 561.  The backend yields response
\* objects only, so the chunk read at line 546 is never None.
FetchChunk ==
    /\ pc = "join"
    /\ Len(delivered) < ChunkLimit
    /\ \E text \in NextFragments, d \in Arrivals(wait_time) :
          /\ now' = now + d
          /\ fetchThread' = "finished"
          /\ result_holder' = [chunk |-> text, done |-> FALSE]
          /\ delivered' = Append(delivered, text)
          /\ IF text = <<>>
             THEN /\ pc' = "loop_top"
                  /\ UNCHANGED <<chunks, got_first_chunk, chunk_count,
                                 progress, sinkRaised, streamEnd, output>>
             ELSE /\ chunks' = Accumulate(chunks, text)
                  /\ got_first_chunk' = TRUE
                  /\ chunk_count' = chunk_count + 1
                  /\ \E o \in (IF pbar THEN SinkOutcomes ELSE {"ok"}) :
                        IF o = "raise"
                        THEN /\ sinkRaised' = "stream"
                             /\ streamEnd' = "sink_error"
                             /\ output' = None
                             /\ pc' = "after_stream"
                             /\ UNCHANGED progress
                        ELSE /\ progress' =
                                  IF pbar
                                  THEN Append(progress,
                                              StreamProgress(chunk_count'))
                                  ELSE progress
                             /\ pc' = "loop_top"
                             /\ UNCHANGED <<sinkRaised, streamEnd, output>>
    /\ UNCHANGED <<outside, inputs, runOutcome, prompt, pbar, health, effective_timeout, calls,
                   elapsed, wait_time, result, hostRaised>>

\* Lines 507-508, 543-544, 565-573: the iterator is exhausted.
FetchDone ==
    /\ pc = "join"
    /\ \E d \in Arrivals(wait_time) : now' = now + d
    /\ fetchThread' = "finished"
    /\ result_holder' = [done |-> TRUE]
    /\ streamEnd' = "completed"
    /\ output' = BreakResult(chunks)
    /\ pc' = "after_stream"
    /\ UNCHANGED <<outside, inputs, runOutcome, prompt, pbar, progress, sinkRaised, health,
                   effective_timeout, calls, elapsed, chunks, got_first_chunk,
                   chunk_count, wait_time, delivered, result, hostRaised>>

\* Lines 509-510, 540-541, 561-563: next(it) raises; the controller re-raises
\* and returns None.
FetchError ==
    /\ pc = "join"
    /\ \E d \in Arrivals(wait_time) : now' = now + d
    /\ fetchThread' = "finished"
    /\ result_holder' = [error |-> "exc"]
    /\ streamEnd' = "error"
    /\ output' = ErrorResult(chunks)
    /\ pc' = "after_stream"
    /\ UNCHANGED <<outside, inputs, runOutcome, prompt, pbar, progress, sinkRaised, health,
                   effective_timeout, calls, elapsed, chunks, got_first_chunk,
                   chunk_count, wait_time, delivered, result, hostRaised>>

\* Lines 531-538: the join expires with the thread still alive.
JoinTimeout ==
    /\ pc = "join"
    /\ now' = now + wait_time
    /\ fetchThread' = "abandoned"
    /\ streamEnd' = IF got_first_chunk THEN "stall_chunk" ELSE "stall_first"
    /\ output' = None
    /\ pc' = "after_stream"
    /\ UNCHANGED <<outside, inputs, runOutcome, prompt, pbar, progress, sinkRaised, health,
                   effective_timeout, calls, elapsed, chunks, got_first_chunk,
                   chunk_count, wait_time, result_holder, delivered, result,
                   hostRaised>>

\* Lines 502-510 in a thread the controller no longer waits for.
AbandonedFetchCompletes ==
    /\ fetchThread = "abandoned"
    /\ fetchThread' = "late"
    /\ result_holder' \in {[chunk |-> <<"a">>, done |-> FALSE],
                           [done |-> TRUE]}
    /\ UNCHANGED <<outside, inputs, runOutcome, pc, prompt, pbar, progress, sinkRaised, health,
                   effective_timeout, calls, now, elapsed, chunks,
                   got_first_chunk, chunk_count, wait_time, delivered,
                   streamEnd, output, result, hostRaised>>

\* Lines 657-671: a text from the controller is sanitized, 100 is reported
\* and the text (or the empty-result diagnostic) returned; None falls through.
\* The controller has returned: its locals (clock, accumulator, counters) are
\* gone, only its return value and the abandoned thread's holder remain.
AfterStream ==
    /\ pc = "after_stream"
    /\ IF NeedsFallback(output)
       THEN /\ pc' = "fallback"
            /\ UNCHANGED <<progress, sinkRaised, result, hostRaised>>
       ELSE /\ pc' = "done"
            /\ \E o \in (IF pbar THEN SinkOutcomes ELSE {"ok"}) :
                  IF o = "raise"
                  THEN /\ sinkRaised' = "final"
                       /\ hostRaised' = TRUE
                       /\ UNCHANGED <<progress, result>>
                  ELSE /\ progress' =
                            IF pbar THEN Append(progress, 100) ELSE progress
                       /\ result' =
                            ResultOf(Sanitize(output.text, include_reasoning))
                       /\ UNCHANGED <<sinkRaised, hostRaised>>
    /\ now' = 0
    /\ elapsed' = 0
    /\ chunks' = <<>>
    /\ got_first_chunk' = FALSE
    /\ chunk_count' = 0
    /\ wait_time' = 0
    /\ delivered' = <<>>
    /\ UNCHANGED <<outside, inputs, runOutcome, prompt, pbar, health, effective_timeout, calls,
                   fetchThread, result_holder, streamEnd, output>>

\* What one outcome of subprocess.run makes generate return (lines 682-706).
FallbackResult(oc, text, keep, t) ==
    CASE oc = "nonzero" -> <<DiagOllamaError(text)>>
      [] oc = "timeout" -> <<DiagTimedOut(t)>>
      [] oc = "notfound" -> <<DiagNotFound>>
      [] oc = "other" -> <<DiagError("exc")>>
      [] oc = "sink" -> <<DiagError("sink")>>
      [] OTHER -> ResultOf(Sanitize(text, keep))

\* Lines 673-706: the single blocking call and the mapping of its outcome.
\* An exception of the sink at line 691 is caught at line 705.
Fallback ==
    /\ pc = "fallback"
    /\ calls' = [calls EXCEPT !.run = @ + 1]
    /\ pc' = "done"
    /\ \/ \E oc \in {"timeout", "notfound", "other"} :
             /\ runOutcome' = [kind |-> oc, text |-> <<>>]
             /\ result' = FallbackResult(oc, <<>>, include_reasoning, timeout)
             /\ UNCHANGED <<progress, sinkRaised>>
       \/ \E stderr \in ProcessTexts :
             /\ runOutcome' = [kind |-> "nonzero", text |-> stderr]
             /\ result' =
                  FallbackResult("nonzero", stderr, include_reasoning, timeout)
             /\ UNCHANGED <<progress, sinkRaised>>
       \/ \E stdout \in StdoutTexts,
             o \in (IF pbar THEN SinkOutcomes ELSE {"ok"}) :
             /\ runOutcome' = [kind |-> "ok", text |-> stdout]
             /\ IF o = "raise"
                THEN /\ sinkRaised' = "fallback"
                     /\ result' =
                          FallbackResult("sink", stdout, include_reasoning,
                                         timeout)
                     /\ UNCHANGED progress
                ELSE /\ progress' =
                          IF pbar THEN Append(progress, 100) ELSE progress
                     /\ result' =
                          FallbackResult("ok", stdout, include_reasoning,
                                         timeout)
                     /\ UNCHANGED sinkRaised
    /\ UNCHANGED <<outside, inputs, prompt, pbar, health, effective_timeout,
                   ctrl, hostRaised>>

\* The steps of the thread that runs generate.
GenerateStep ==
    \/ Validate
    \/ InitProgress
    \/ HealthProbe
    \/ StreamOpen
    \/ LoopTop
    \/ FetchChunk
    \/ FetchDone
    \/ FetchError
    \/ JoinTimeout
    \/ AfterStream
    \/ Fallback

Next ==
    \/ GenerateStep
    \/ AbandonedFetchCompletes

Spec == Init /\ [][Next]_vars

\* The thread that runs generate is never suspended for ever, and every
\* backend call it makes returns, raises or (subprocess.run) times out.
FairSpec == Spec /\ WF_vars(GenerateStep)

\* A backend set to answer with a reasoning block, whitespace, a label,
\* whitespace and a body, streamed in two fragments (the block with the
\* whitespace after it, then the rest) or written to stdout as one text.
ReasoningBlocks ==
    {ThinkingStart \o middle \o ThinkingEnd :
        middle \in {<<"\n">>, <<"\n", "p", ".", "\n">>}}

Labels == {PromptLabel, SDPromptLabel, ImagePromptLabel}

Gaps == {<<" ">>, <<"\n", "\n">>}

Bodies == {<<"A">>, <<"A", " ", "m", ".">>}

ReasoningScripts ==
    {[parts |-> <<block \o gap1, label \o gap2 \o body>>, body |-> body] :
        block \in ReasoningBlocks, gap1 \in Gaps, label \in Labels,
        gap2 \in Gaps, body \in Bodies}

ReasoningInit ==
    /\ description = <<" ", "a">>
    /\ style = "cinematic"
    /\ model \in ModelChoices
    /\ timeout = 120
    /\ include_reasoning \in BOOLEAN
    /\ sinkKind \in SinkKinds
    /\ apiAvailable \in BOOLEAN
    /\ script \in ReasoningScripts
    /\ GenerateStart
    /\ ProbeIdle
    /\ CacheIdle
    /\ SanitizerIdle
    /\ ThreadIdle

\* generate against a backend that answers with such a text.
ReasoningSpec == ReasoningInit /\ [][Next]_vars

\* A backend that streams many one-character fragments, the second of them
\* with an empty text.
LongScript ==
    [parts |-> [i \in 1..ManyFragments |-> IF i = 2 THEN <<>> ELSE <<"a">>],
     body |-> <<>>]

LongStreamInit ==
    /\ description = <<" ", "a">>
    /\ style = "cinematic"
    /\ model \in ModelChoices
    /\ timeout \in TimeoutChoices
    /\ include_reasoning \in BOOLEAN
    /\ sinkKind \in SinkKinds
    /\ apiAvailable \in BOOLEAN
    /\ script \in {NoScript, LongScript}
    /\ GenerateStart
    /\ ProbeIdle
    /\ CacheIdle
    /\ SanitizerIdle
    /\ ThreadIdle

\* generate against a backend with short streams of any content or with the
\* long stream.
LongStreamSpec == LongStreamInit /\ [][Next]_vars

\* ------------------------------------------------- _check_ollama_health

\* Model ids the probe is asked about.
ProbeModels ==
    {<<"q", ":", "8">>, <<"q", ":", "8", "4">>, <<"q", "q", ":", "8">>,
     <<"l">>, <<"m">>}

\* Identifiers of models the backend may hold resident.
ResidentIds == {<<"q", ":", "8">>, <<"l", ":", "1">>, <<"q", "q">>}

\* Lists ollama.ps() may report: up to MaxResident resident identifiers.
ResidentLists ==
    UNION {[1..n -> ResidentIds] : n \in 0..MaxResident}

\* The arguments of generate at their defaults, for the operations that are
\* run outside generate.
GenerateDefaults ==
    /\ description = <<>>
    /\ style = "cinematic"
    /\ timeout = 120
    /\ include_reasoning = FALSE
    /\ sinkKind = "absent"
    /\ script = NoScript

ProbeInit ==
    /\ GenerateDefaults
    /\ model \in ProbeModels
    /\ apiAvailable \in BOOLEAN
    /\ GenerateStart
    /\ probePc = "start"
    /\ running_models \in ResidentLists
    /\ probeAnswers = [list |-> <<>>, ps |-> <<>>]
    /\ probeReturn = NoHealth
    /\ CacheIdle
    /\ SanitizerIdle
    /\ ThreadIdle

\* Variant: the residency call is made whatever the liveness call did.
AfterListAlwaysPs(answer) == "ps"

\* Lines 446-449: a failed ollama.list() returns at once.
AfterList(answer) == IF answer = "ok" THEN "ps" ELSE "returned"

\* Lines 443-444: without the client library nothing is called.
ProbeEnter ==
    /\ probePc = "start"
    /\ IF apiAvailable
       THEN /\ probePc' = "list"
            /\ UNCHANGED probeReturn
       ELSE /\ probePc' = "returned"
            /\ probeReturn' =
                 [probed |-> TRUE, healthy |-> FALSE, loaded |-> FALSE]
    /\ UNCHANGED <<generateVars, cacheVars, sanitizerVars, threadVars,
                   running_models, probeAnswers>>

\* Lines 446-449: ollama.list() answers or raises.
ProbeList ==
    /\ probePc = "list"
    /\ \E answer \in {"ok", "fail"} :
          /\ probeAnswers' = [probeAnswers EXCEPT !.list = Append(@, answer)]
          /\ probePc' = AfterList(answer)
          /\ probeReturn' =
                IF answer = "ok" THEN probeReturn
                ELSE check_ollama_health(model, FALSE, TRUE, <<>>)
    /\ UNCHANGED <<generateVars, cacheVars, sanitizerVars, threadVars,
                   running_models>>

\* Lines 451-469: ollama.ps() answers with the resident models, or raises.
\* Every exception raised in this block is caught at line 467.
ProbePs ==
    /\ probePc = "ps"
    /\ \E answer \in {"ok", "fail"} :
          /\ probeAnswers' = [probeAnswers EXCEPT !.ps = Append(@, answer)]
          /\ probeReturn' =
                check_ollama_health(model, probeAnswers.list # <<"fail">>,
                                    answer = "ok", running_models)
    /\ probePc' = "returned"
    /\ UNCHANGED <<generateVars, cacheVars, sanitizerVars, threadVars,
                   running_models>>

ProbeNext ==
    \/ ProbeEnter
    \/ ProbeList
    \/ ProbePs

ProbeSpec == ProbeInit /\ [][ProbeNext]_vars

\* ------------------------------------------------- _get_available_models

\* The characters of model identifiers in the order of their code points.
Ascii ==
    <<"-", ".", "0", "1", "2", "3", "4", "5", "6", "7", "8", "9", ":",
      "A", "B", "C", "D", "E", "F", "G", "H", "I", "J", "K", "L", "M",
      "N", "O", "P", "Q", "R", "S", "T", "U", "V", "W", "X", "Y", "Z", "_",
      "a", "b", "c", "d", "e", "f", "g", "h", "i", "j", "k", "l", "m",
      "n", "o", "p", "q", "r", "s", "t", "u", "v", "w", "x", "y", "z">>

\* Place of a character in that order.
Ord(c) == CHOOSE i \in 1..Len(Ascii) : Ascii[i] = c

\* str.lower() on one character and on a string.
LowerChar(c) ==
    IF Ord(c) >= Ord("A") /\ Ord(c) <= Ord("Z")
    THEN Ascii[Ord(c) + (Ord("a") - Ord("A"))]
    ELSE c
Lower(s) == [i \in 1..Len(s) |-> LowerChar(s[i])]

\* kw in s
Contains(s, kw) == FindFrom(s, 1, kw) # 0

\* lora_keywords (line 248).
lora_keywords ==
    {<<"l", "o", "r", "a">>,
     <<"l", "i", "m", "b", "i", "c", "n", "a", "t", "i", "o", "n">>,
     <<"f", "i", "n", "e">>,
     <<"s", "t", "y", "l", "e">>,
     <<"p", "r", "o", "m", "p", "t">>}

\* Variant: the keywords are looked for in the name as written.
is_lora_case_sensitive(name) == \E kw \in lora_keywords : Contains(name, kw)

\* is_lora = any(kw in name_lower for kw in lora_keywords)
is_lora(name) ==
    \E kw \in lora_keywords : \E lowered \in {Lower(name)} : Contains(lowered, kw)

\* sort_key (lines 250-253).
sort_key(name) == [rank |-> IF is_lora(name) THEN 0 ELSE 1, name |-> name]

\* a < b for Python strings: by code point at the first difference, a proper
\* prefix first.
LexLess(a, b) ==
    \E i \in 1..Len(b) :
        /\ i - 1 <= Len(a)
        /\ SubSeq(a, 1, i - 1) = SubSeq(b, 1, i - 1)
        /\ \/ Len(a) = i - 1
           \/ Len(a) >= i /\ Ord(a[i]) < Ord(b[i])

\* k1 < k2 for the tuples sort_key returns.
KeyLess(k1, k2) ==
    \/ k1.rank < k2.rank
    \/ k1.rank = k2.rank /\ LexLess(k1.name, k2.name)

\* One element put into a list that is in key order, behind every element
\* whose key is not greater (sorted is stable).
Insert(name, list) ==
    LET before == Cardinality({i \in 1..Len(list) :
                      ~KeyLess(sort_key(name), sort_key(list[i]))})
    IN  SubSeq(list, 1, before) \o <<name>>
            \o SubSeq(list, before + 1, Len(list))

\* sorted(models, key=sort_key)
Sorted(models) ==
    LET upto[n \in 0..Len(models)] ==
            IF n = 0 THEN <<>> ELSE Insert(models[n], upto[n - 1])
    IN  upto[Len(models)]

\* default_models (line 233).
DefaultModels ==
    << <<"q", "w", "e", "n", "3", ":", "8", "b">>,
       <<"q", "w", "e", "n", "3", ":", "4", "b">>,
       <<"l", "l", "a", "m", "a", "3", ".", "2", ":", "l", "a", "t", "e",
         "s", "t">> >>

\* Entries of result["models"]: with a "model" key, or without one.
ModelEntry(id) == [has |-> TRUE, model |-> id]
NoModelKey == [has |-> FALSE, model |-> <<>>]

\* Identifiers the backend may list: two that hold a keyword (one of them in
\* capitals only) and two that hold none.
ModelIds ==
    {<<"F", "I", "N", "E">>, <<"l", "o", "r", "a">>, <<"a">>,
     <<"b", ":", "1">>}

RawEntries == {ModelEntry(id) : id \in ModelIds} \cup {NoModelKey}

\* Answers of ollama.list(): up to MaxModels entries.
RawLists == UNION {[1..n -> RawEntries] : n \in 0..MaxModels}

\* [m.get("model", "") for m in result.get("models", []) if "model" in m]
Identifiers(answer) ==
    LET kept == SelectSeq(answer, LAMBDA entry : entry.has)
    IN  [i \in 1..Len(kept) |-> kept[i].model]

\* time.time() when the model starts: seconds since 1970, far more than 60.
StartTime == 1000

\* Seconds by which one step of the clock advances time.time().
TickSeconds == 30

\* The cache lifetime of line 230, seconds.
CacheSeconds == 60

\* Variant: a list of age 60 is still reused.
CacheFreshInclusive(age) == age <= CacheSeconds

\* (time.time() - cls._cache_time) < 60
CacheFresh(age) == age < CacheSeconds

\* bool(cls._cached_models)
Truthy(cached) == cached.stored /\ cached.models # <<>>

\* Variant: the fetched list is added to the list already stored.
StoreValueExtend(old, list) == Stored(old.models \o list)

\* cls._cached_models = models
StoreValue(old, list) == Stored(list)

\* The class attributes before any call, at some time of day.
CacheStart ==
    /\ cached_models = NoList
    /\ cache_time = 0
    /\ clock = StartTime
    /\ call = [t \in Callers |-> IdleCall]
    /\ lastStore = [by |-> "none", models |-> <<>>]

\* A thread enters _get_available_models.
CacheEnter(t) ==
    /\ call[t].pc = "idle"
    /\ call' = [call EXCEPT ![t] =
                   [IdleCall EXCEPT
                       !.pc = "read_cached",
                       !.entry = [cached |-> cached_models,
                                  time |-> cache_time]]]
    /\ UNCHANGED <<notCache, cached_models, cache_time, clock, lastStore>>

\* Line 230, first operand: cls._cached_models is read and tested.
ReadCached(t) ==
    /\ call[t].pc = "read_cached"
    /\ call' = [call EXCEPT ![t].pc =
                   IF Truthy(cached_models) THEN "read_clock" ELSE "gate"]
    /\ UNCHANGED <<notCache, cached_models, cache_time, clock, lastStore>>

\* Line 230: time.time() is read.
ReadClock(t) ==
    /\ call[t].pc = "read_clock"
    /\ call' = [call EXCEPT ![t].now = clock, ![t].pc = "read_time"]
    /\ UNCHANGED <<notCache, cached_models, cache_time, clock, lastStore>>

\* Line 230: cls._cache_time is read and the age compared with 60.
ReadCacheTime(t) ==
    /\ call[t].pc = "read_time"
    /\ call' = [call EXCEPT ![t].pc =
                   IF CacheFresh(call[t].now - cache_time)
                   THEN "return_cached" ELSE "gate"]
    /\ UNCHANGED <<notCache, cached_models, cache_time, clock, lastStore>>

\* Line 231: cls._cached_models is read again and returned.
ReturnCached(t) ==
    /\ call[t].pc = "return_cached"
    /\ call' = [call EXCEPT ![t].returned = cached_models.models,
                            ![t].path = "cached",
                            ![t].pc = "done"]
    /\ UNCHANGED <<notCache, cached_models, cache_time, clock, lastStore>>

\* Lines 233-236: without the client library the default list is returned.
FetchGate(t) ==
    /\ call[t].pc = "gate"
    /\ call' = IF apiAvailable
               THEN [call EXCEPT ![t].pc = "list"]
               ELSE [call EXCEPT ![t].returned = DefaultModels,
                                 ![t].path = "default",
                                 ![t].pc = "done"]
    /\ UNCHANGED <<notCache, cached_models, cache_time, clock, lastStore>>

\* Variant: an answer without identifiers is treated like any other.
NoModelsNever(ids) == FALSE

\* Line 244: not models
NoModels(ids) == ids = <<>>

\* Lines 239-255, 263-265: ollama.list() raises, or gives one of the answers;
\* no identifier in the answer gives the default list, else the identifiers
\* are sorted.
ListCall(t, answers) ==
    /\ call[t].pc = "list"
    /\ \/ call' = [call EXCEPT ![t].contacts = @ + 1,
                               ![t].returned = DefaultModels,
                               ![t].path = "default",
                               ![t].pc = "done"]
       \/ \E answer \in answers :
             \E ids \in {Identifiers(answer)} :
                call' =
                    IF NoModels(ids)
                    THEN [call EXCEPT ![t].contacts = @ + 1,
                                      ![t].returned = DefaultModels,
                                      ![t].path = "default",
                                      ![t].pc = "done"]
                    ELSE [call EXCEPT ![t].contacts = @ + 1,
                                      ![t].fetched = ids,
                                      ![t].models = Sorted(ids),
                                      ![t].pc = "store_models"]
    /\ UNCHANGED <<notCache, cached_models, cache_time, clock, lastStore>>

\* Line 257: cls._cached_models = models
StoreModels(t) ==
    /\ call[t].pc = "store_models"
    /\ cached_models' = StoreValue(cached_models, call[t].models)
    /\ lastStore' = [by |-> t, models |-> call[t].models]
    /\ call' = [call EXCEPT ![t].pc = "store_time"]
    /\ UNCHANGED <<notCache, cache_time, clock>>

\* Lines 258-261: cls._cache_time = time.time(); return models
StoreTime(t) ==
    /\ call[t].pc = "store_time"
    /\ cache_time' = clock
    /\ call' = [call EXCEPT ![t].returned = call[t].models,
                            ![t].path = "fetched",
                            ![t].pc = "done"]
    /\ UNCHANGED <<notCache, cached_models, clock, lastStore>>

\* The caller has taken the returned list; the thread may call again.
CallOver(t) ==
    /\ call[t].pc = "done"
    /\ call' = [call EXCEPT ![t] = IdleCall]
    /\ UNCHANGED <<notCache, cached_models, cache_time, clock, lastStore>>

\* time.time() advances.
Tick ==
    /\ clock < StartTime + MaxTicks * TickSeconds
    /\ clock' = clock + TickSeconds
    /\ UNCHANGED <<notCache, cached_models, cache_time, call, lastStore>>

\* The steps of one thread in _get_available_models.
CallStep(t, answers) ==
    \/ CacheEnter(t)
    \/ ReadCached(t)
    \/ ReadClock(t)
    \/ ReadCacheTime(t)
    \/ ReturnCached(t)
    \/ FetchGate(t)
    \/ ListCall(t, answers)
    \/ StoreModels(t)
    \/ StoreTime(t)
    \/ CallOver(t)

\* Answers of ollama.list() in the behaviours that follow the clock: no
\* entry, one model, and two models listed out of order.
FewLists ==
    {<<>>,
     <<ModelEntry(<<"a">>)>>,
     <<ModelEntry(<<"b", ":", "1">>), ModelEntry(<<"l", "o", "r", "a">>)>>}

CacheInit ==
    /\ GenerateDefaults
    /\ model \in ModelChoices
    /\ apiAvailable \in BOOLEAN
    /\ GenerateStart
    /\ ProbeIdle
    /\ CacheStart
    /\ SanitizerIdle
    /\ ThreadIdle

\* One thread calls _get_available_models from an empty cache; the backend
\* answers with any list of up to MaxModels entries.
FetchNext == CallStep("t1", RawLists)

FetchSpec == CacheInit /\ [][FetchNext]_vars

\* One thread calls _get_available_models again and again, at any times.
CacheNext ==
    \/ Tick
    \/ CallStep("t1", FewLists)

CacheSpec == CacheInit /\ [][CacheNext]_vars

\* The threads of Callers call _get_available_models again and again, each
\* read and each write of a class attribute being one step.
ConcurrentCacheNext ==
    \/ Tick
    \/ \E t \in Callers : CallStep(t, FewLists)

ConcurrentCacheSpec == CacheInit /\ [][ConcurrentCacheNext]_vars

\* --------------------------------------- extract_final_prompt, repeated

\* Characters of the texts: those of "None", the double quote, a blank and
\* one character that no pattern mentions.
TextAlphabet == {"N", "o", "n", "e", "\"", " ", "a"}

RawTexts == UNION {[1..n -> TextAlphabet] : n \in 0..MaxText}

\* How often the caller applies the function.
Passes == 2

SanitizerInit ==
    /\ GenerateDefaults
    /\ model \in ModelChoices
    /\ apiAvailable = FALSE
    /\ GenerateStart
    /\ ProbeIdle
    /\ CacheIdle
    /\ raw_output \in RawTexts
    /\ extracted = <<>>
    /\ ThreadIdle

\* text = extract_final_prompt(text): the first call is given the raw text,
\* every later call the value the call before it returned.
Extract ==
    /\ Len(extracted) < Passes
    /\ LET arg == IF extracted = <<>> THEN raw_output
                  ELSE extracted[Len(extracted)]
       IN  extracted' = Append(extracted, extract_final_prompt(arg))
    /\ UNCHANGED <<generateVars, probeVars, cacheVars, threadVars, raw_output>>

SanitizerNext == Extract

SanitizerSpec == SanitizerInit /\ [][SanitizerNext]_vars

\* ------------------------- _generate_with_streaming, thread by thread

\* What _iter_next leaves in result_holder (lines 504-510).
FetchResults == {"chunk", "done", "error"}

ThreadInit ==
    /\ GenerateDefaults
    /\ model \in ModelChoices
    /\ apiAvailable = TRUE
    /\ GenerateStart
    /\ ProbeIdle
    /\ CacheIdle
    /\ SanitizerIdle
    /\ loopPc = "top"
    /\ fetchThreads = <<>>
    /\ holder = ClearedHolder
    /\ holderReads = <<>>
    /\ loopReturn = "none"

\* t.is_alive() of the thread started k-th.
IsAlive(k) == fetchThreads[k] # "terminated"

\* Variant: a thread found alive is left behind and the loop goes on.
AfterAliveCheckRetry(alive) == IF alive THEN "top" ELSE "read"

\* Lines 533-538: return None when the thread is still alive.
AfterAliveCheck(alive) == IF alive THEN "returned" ELSE "read"

\* Lines 517-525: leave on the total timeout, or clear the holder and start
\* a thread on the iterator.
LoopEnter ==
    /\ loopPc = "top"
    /\ \/ /\ loopPc' = "returned"
          /\ loopReturn' = "break"
          /\ UNCHANGED <<fetchThreads, holder>>
       \/ /\ Len(fetchThreads) < MaxFetches
          /\ holder' = ClearedHolder
          /\ fetchThreads' = Append(fetchThreads, "running")
          /\ loopPc' = "join"
          /\ UNCHANGED loopReturn
    /\ UNCHANGED <<generateVars, probeVars, cacheVars, sanitizerVars,
                   holderReads>>

\* Lines 504-510 in thread k: next(it) has returned or raised and the thread
\* writes what it got into the holder it shares with the controller.
ThreadWrites(k) ==
    /\ fetchThreads[k] = "running"
    /\ \E r \in FetchResults : holder' = [kind |-> r, by |-> k]
    /\ fetchThreads' = [fetchThreads EXCEPT ![k] = "written"]
    /\ UNCHANGED <<generateVars, probeVars, cacheVars, sanitizerVars,
                   loopPc, holderReads, loopReturn>>

\* Thread k leaves _iter_next and terminates.
ThreadExits(k) ==
    /\ fetchThreads[k] = "written"
    /\ fetchThreads' = [fetchThreads EXCEPT ![k] = "terminated"]
    /\ UNCHANGED <<generateVars, probeVars, cacheVars, sanitizerVars,
                   loopPc, holder, holderReads, loopReturn>>

\* Line 531: t.join(timeout=wait_time) returns, because the thread has
\* terminated or because the wait is over.
JoinReturns ==
    /\ loopPc = "join"
    /\ loopPc' = "alive_check"
    /\ UNCHANGED <<generateVars, probeVars, cacheVars, sanitizerVars,
                   fetchThreads, holder, holderReads, loopReturn>>

\* Lines 533-538.
AliveCheck ==
    /\ loopPc = "alive_check"
    /\ loopPc' = AfterAliveCheck(IsAlive(Len(fetchThreads)))
    /\ loopReturn' = IF loopPc' = "returned" THEN "timeout" ELSE loopReturn
    /\ UNCHANGED <<generateVars, probeVars, cacheVars, sanitizerVars,
                   fetchThreads, holder, holderReads>>

\* Lines 540-548: the controller reads the holder: an error is raised (and
\* caught at line 561), "done" or a missing chunk breaks, a chunk goes on.
ReadHolder ==
    /\ loopPc = "read"
    /\ holderReads' = Append(holderReads, holder)
    /\ IF holder.kind = "chunk"
       THEN /\ loopPc' = "top"
            /\ UNCHANGED loopReturn
       ELSE /\ loopPc' = "returned"
            /\ loopReturn' = IF holder.kind = "error" THEN "error" ELSE "break"
    /\ UNCHANGED <<generateVars, probeVars, cacheVars, sanitizerVars,
                   fetchThreads, holder>>

ThreadNext ==
    \/ LoopEnter
    \/ JoinReturns
    \/ AliveCheck
    \/ ReadHolder
    \/ \E k \in 1..Len(fetchThreads) : ThreadWrites(k)
    \/ \E k \in 1..Len(fetchThreads) : ThreadExits(k)

\* One invocation of the controller with its fetch threads as processes of
\* their own.
ThreadSpec == ThreadInit /\ [][ThreadNext]_vars

\* ------------------------------------------------------------------ claims

\* The controller has returned and generate has not yet consumed its value.
ControllerReturned == pc = "after_stream"

\* The probe reported reachable and not resident (residency unknown included).
ColdStart == health.probed /\ health.healthy /\ ~health.loaded

\* The controller was invoked and returned None.
ControllerFailed == streamEnd # "none" /\ output = None

\* Every character of the description is whitespace.
BlankDescription ==
    \A i \in 1..Len(description) : description[i] \in {" ", "\n"}

\* C1 (as claimed): whenever the loop leaves on elapsed >= total timeout, the
\* controller returns None, also when fragments were accumulated.
C1_TotalTimeoutReturnsNone ==
    streamEnd = "total_timeout" => output = None

\* C2: when no fragment arrives while no non-empty fragment has been received,
\* the controller returns None after a wait of at most
\* min(0.6 * total timeout, 90 s), which is less than the total timeout, and
\* it returns with the fetch thread still alive (never joined to completion).
C2_FirstChunkStallBounded ==
    (ControllerReturned /\ streamEnd = "stall_first") =>
        /\ output = None
        /\ now - elapsed = wait_time
        /\ wait_time <= Min(6 * effective_timeout, 900)
        /\ wait_time < 10 * effective_timeout
        /\ fetchThread \in {"abandoned", "late"}
        /\ Join(delivered) = <<>>

C2_Witness ==
    /\ ControllerReturned
    /\ streamEnd = "stall_first"
    /\ fetchThread = "abandoned"
    /\ delivered = <<>>
    /\ now = Min(6 * effective_timeout, 900)

\* C3 (as claimed): a stream that delivers its fragments in time and then
\* completes makes the controller return the concatenation of their texts.
C3_CompletedReturnsConcatenation ==
    (ControllerReturned /\ streamEnd = "completed") =>
        output = Text(Join(delivered))

\* C3 (amended): a stream that delivers its fragments in time and then
\* completes makes the controller return the concatenation of their texts in
\* arrival order when that concatenation is not empty, and None when it is.
C3_CompletedReturnsNonEmptyConcatenation ==
    (ControllerReturned /\ streamEnd = "completed") =>
        output = IF Join(delivered) = <<>> THEN None
                 ELSE Text(Join(delivered))

C3_Witness ==
    /\ ControllerReturned
    /\ streamEnd = "completed"
    /\ Len(delivered) = 2
    /\ delivered[1] = <<"a">>
    /\ delivered[2] = NoneToken
    /\ output = Text(<<"a", "N", "o", "n", "e">>)

\* C4: one invocation opens the streaming call at most once and issues the
\* fallback call at most once; the fallback is issued exactly when the
\* streaming client is unavailable or the controller returned None, never
\* after it returned text, and nothing runs after the fallback.
C4_OneStreamOneFallback ==
    /\ calls.generate <= 1
    /\ calls.run <= 1
    /\ ~apiAvailable => calls.generate = 0
    /\ calls.run = 1 =>
          /\ pc = "done"
          /\ ~apiAvailable \/ (calls.generate = 1 /\ ControllerFailed)
    /\ (calls.generate = 1 /\ output # None) => calls.run = 0
    /\ (pc = "done" /\ ~BlankDescription
            /\ (~apiAvailable \/ ControllerFailed)) => calls.run = 1

C4_Witness ==
    /\ pc = "done"
    /\ calls.generate = 1
    /\ calls.run = 1
    /\ streamEnd = "stall_chunk"

\* C5: with the progress sink absent or working, whatever the probe, the
\* stream and the fallback call do, generate raises nothing, and it ends by
\* returning a one-element tuple that holds a non-empty string.
C5_ReturnsNonEmptyString ==
    (sinkKind # "faulty") ~>
        (pc = "done" /\ ~hostRaised /\ Len(result) = 1 /\ Len(result[1]) > 0)

C5_Witness ==
    /\ pc = "done"
    /\ sinkKind = "working"
    /\ include_reasoning = FALSE
    /\ streamEnd = "total_timeout"
    /\ output = Text(NoneToken \o NoneToken)
    /\ result = <<DiagEmptyResult>>

\* C6 (as claimed): an exception of the progress sink never lets generate
\* raise, never makes the controller give up a stream, and never replaces an
\* obtained output by an error diagnostic.
C6_SinkFailureAbsorbed ==
    sinkRaised # "none" =>
        /\ ~hostRaised
        /\ streamEnd # "sink_error"
        /\ result # <<DiagError("sink")>>

\* C7 (as claimed): the streaming call is opened only if the probe of this
\* invocation reported the backend reachable.
C7_StreamOnlyIfReachable ==
    calls.generate > 0 => health.healthy

\* C8 (as claimed): the controller's total timeout is min(timeout * 1.3, 600)
\* on a cold start and the user's timeout otherwise.
C8_EffectiveTimeoutExact ==
    calls.generate = 1 =>
        10 * effective_timeout =
            IF ColdStart THEN Min(13 * timeout, 6000) ELSE 10 * timeout

\* C8 (amended): the controller's total timeout is
\* min(floor(timeout * 1.3), 600) on a cold start and the user's timeout
\* otherwise; it is at least the user's timeout and at most 600.
C8_EffectiveTimeoutTruncated ==
    calls.generate = 1 =>
        /\ effective_timeout =
              IF ColdStart THEN Min((13 * timeout) \div 10, 600) ELSE timeout
        /\ effective_timeout >= timeout
        /\ effective_timeout <= 600

C8_Witness ==
    /\ calls.generate = 1
    /\ ColdStart
    /\ timeout = 31
    /\ effective_timeout = 40

\* C9 (as claimed): a style key that is not loaded makes generate issue no
\* health probe, no streaming call and no fallback call.
C9_UnknownStyleRejected ==
    style \notin StyleKeys =>
        (calls.list = 0 /\ calls.generate = 0 /\ calls.run = 0)

\* C9 (amended): with a non-blank description, a style key that is not loaded
\* is not rejected: the prompt is rendered from the "cinematic" template and
\* generate goes on to the backend (the probe, or the fallback call when the
\* streaming client is unavailable) as for a loaded key.
C9_UnknownStyleUsesCinematic ==
    (style \notin StyleKeys /\ ~BlankDescription /\ pc # "start") =>
        /\ prompt = [template |-> "cinematic",
                     description |-> Strip(description)]
        /\ pc = "done" => calls.list + calls.run >= 1

C9_Witness ==
    /\ style \notin StyleKeys
    /\ pc = "done"
    /\ prompt.template = "cinematic"
    /\ calls.list = 1
    /\ calls.generate = 1
    /\ Len(result) = 1

\* C10: a description that is empty or whitespace only makes generate return
\* the "please enter a description" diagnostic with no template rendered, no
\* progress bar created, no probe and no streaming or fallback call.
C10_BlankDescriptionRejected ==
    BlankDescription =>
        /\ pc \in {"start", "done"}
        /\ pc = "done" => result = <<DiagEmptyDescription>>
        /\ prompt = NoPrompt
        /\ ~pbar /\ progress = <<>> /\ sinkRaised = "none"
        /\ calls = [list |-> 0, ps |-> 0, generate |-> 0, run |-> 0]
        /\ ~hostRaised

C10_Witness ==
    /\ description = <<" ", "\n">>
    /\ pc = "done"
    /\ result = <<DiagEmptyDescription>>

\* rm.split(":")[0]: the part of an identifier before its first ':'.
BaseName(id) == SplitHead(id, ":")

\* The probe has returned after both backend calls answered.
ProbeAnswered ==
    /\ probePc = "returned"
    /\ probeAnswers = [list |-> <<"ok">>, ps |-> <<"ok">>]

\* The requested id equals resident identifier k or has its base name.
SameModel(k) ==
    \/ model = running_models[k]
    \/ BaseName(model) = BaseName(running_models[k])

\* C11: when both backend calls succeed, the probe reports resident = true
\* for every requested id that equals a resident identifier or whose part
\* before the first ':' equals that part of a resident identifier.
C11_SameBaseIsResident ==
    ProbeAnswered =>
        ((\E k \in 1..Len(running_models) : SameModel(k))
            => probeReturn.loaded)

C11_Witness ==
    /\ ProbeAnswered
    /\ model = <<"q", ":", "8", "4">>
    /\ running_models = << <<"l", ":", "1">>, <<"q", ":", "8">> >>
    /\ probeReturn = [probed |-> TRUE, healthy |-> TRUE, loaded |-> TRUE]

\* C12 (as claimed): the probe reports resident = true only if the requested
\* id equals a resident identifier or has the base name of one.
C12_ResidentOnlyIfSameBase ==
    (probePc = "returned" /\ probeReturn.loaded) =>
        \E k \in 1..Len(running_models) : SameModel(k)

\* C13: the probe makes at most one attempt of each backend call; a failed
\* liveness call makes it return (unreachable, not resident) without the
\* residency call; a failed residency call after a successful liveness call
\* makes it return (reachable, not resident); every failure ends in a
\* returned tuple, never in an exception.
C13_ProbeSingleAttempt ==
    /\ Len(probeAnswers.list) <= 1
    /\ Len(probeAnswers.ps) <= 1
    /\ probeAnswers.list = <<"fail">> =>
          /\ probeAnswers.ps = <<>>
          /\ probePc = "returned"
          /\ probeReturn = [probed |-> TRUE, healthy |-> FALSE, loaded |-> FALSE]
    /\ probeAnswers.ps = <<"fail">> =>
          /\ probeAnswers.list = <<"ok">>
          /\ probePc = "returned"
          /\ probeReturn = [probed |-> TRUE, healthy |-> TRUE, loaded |-> FALSE]
    /\ probePc = "returned" <=> probeReturn.probed
    /\ probePc # "returned" => ENABLED ProbeNext

C13_Witness ==
    /\ probePc = "returned"
    /\ probeAnswers = [list |-> <<"ok">>, ps |-> <<"fail">>]
    /\ running_models = << <<"q", ":", "8">> >>
    /\ model = <<"q", ":", "8">>
    /\ probeReturn = [probed |-> TRUE, healthy |-> TRUE, loaded |-> FALSE]

\* The call of thread t has returned.
Returned(t) == call[t].pc = "done"

\* What the call of thread t found on entry: a stored list and its age at
\* the time the call read the clock.
FoundStored(t) == call[t].entry.cached.stored
AgeSeen(t) == call[t].now - call[t].entry.time

\* C14: a call returns the cached list, without contacting the backend, only
\* if a list was stored and (now - stored timestamp) < 60 s; with nothing
\* stored, or at age >= 60 s, the call takes the fetch path: it contacts the
\* backend once if the client library is there, and without the library it
\* returns the default list and contacts nothing.
C14_CacheReusedOnlyWhileFresh ==
    LET c == call["t1"]
    IN  /\ c.contacts <= 1
        /\ c.path = "cached" =>
              /\ c.contacts = 0
              /\ FoundStored("t1") /\ AgeSeen("t1") < 60
              /\ c.returned = c.entry.cached.models
        /\ (Returned("t1") /\ ~(FoundStored("t1") /\ AgeSeen("t1") < 60)) =>
              /\ c.path # "cached"
              /\ c.contacts = IF apiAvailable THEN 1 ELSE 0
              /\ ~apiAvailable => c.returned = DefaultModels

C14_Witness ==
    /\ Returned("t1")
    /\ FoundStored("t1")
    /\ AgeSeen("t1") = 60
    /\ call["t1"].contacts = 1
    /\ call["t1"].path = "fetched"
    /\ cache_time = call["t1"].entry.time + 90

\* An identifier contains a keyword, upper and lower case taken as equal.
HasKeyword(id) ==
    \E kw \in lora_keywords :
        \E i \in 1..Len(id) :
            /\ i + Len(kw) - 1 <= Len(id)
            /\ \A j \in 1..Len(kw) : LowerChar(id[i + j - 1]) = kw[j]

\* Number of places of a list that hold x.
Count(list, x) == Cardinality({i \in 1..Len(list) : list[i] = x})

\* Keyword identifiers first, each of the two groups ascending.
InClaimedOrder(list) ==
    \A i \in 1..Len(list) : \A j \in (i + 1)..Len(list) :
        /\ HasKeyword(list[j]) => HasKeyword(list[i])
        /\ (HasKeyword(list[i]) <=> HasKeyword(list[j]))
              => ~LexLess(list[j], list[i])

\* C15: every list that is fetched and stored is a permutation of the
\* identifiers the backend listed, with the identifiers that contain a
\* keyword (case-insensitively) before all others and each of the two groups
\* in ascending order.
C15_StoredListOrdered ==
    /\ call["t1"].pc = "store_time" =>
          cached_models = Stored(call["t1"].models)
    /\ call["t1"].pc \in {"store_models", "store_time"} =>
          /\ Len(call["t1"].models) = Len(call["t1"].fetched)
          /\ \A id \in ModelIds :
                Count(call["t1"].models, id) = Count(call["t1"].fetched, id)
          /\ InClaimedOrder(call["t1"].models)
    /\ cached_models.stored =>
          /\ cached_models.models = lastStore.models
          /\ cached_models.models # <<>>
          /\ InClaimedOrder(cached_models.models)

C15_Witness ==
    /\ call["t1"].pc = "store_time"
    /\ call["t1"].fetched =
          << <<"a">>, <<"l", "o", "r", "a">>, <<"b", ":", "1">> >>
    /\ cached_models =
          Stored(<< <<"l", "o", "r", "a">>, <<"a">>, <<"b", ":", "1">> >>)

\* The complete sorted results of the single fetches the backend can answer.
CompleteResults == {Sorted(Identifiers(answer)) : answer \in FewLists} \ {<<>>}

\* No thread is inside _get_available_models between entry and return.
AllCallsFinished == \A t \in Callers : call[t].pc \in {"idle", "done"}

\* C16: with the calls of two threads interleaved read by read and write by
\* write, every call returns the default list or the complete sorted result
\* of one fetch, the cache holds nothing or such a result, and once all
\* calls have finished the cache holds the list of the last thread that
\* assigned to it.
C16_ConcurrentCallsSeeWholeLists ==
    /\ \A t \in Callers :
          Returned(t) =>
              call[t].returned \in {DefaultModels} \cup CompleteResults
    /\ cached_models = NoList
          \/ (cached_models.stored /\ cached_models.models \in CompleteResults)
    /\ AllCallsFinished =>
          cached_models =
              IF lastStore.by = "none" THEN NoList
              ELSE Stored(lastStore.models)

C16_Witness ==
    /\ Returned("t1") /\ Returned("t2")
    /\ call["t1"].path = "fetched" /\ call["t2"].path = "fetched"
    /\ call["t1"].returned = << <<"a">> >>
    /\ call["t2"].returned = << <<"l", "o", "r", "a">>, <<"b", ":", "1">> >>
    /\ lastStore.by = "t1"
    /\ cached_models = Stored(call["t1"].returned)
    /\ call["t1"].entry.cached = NoList /\ call["t2"].entry.cached = NoList

\* C17 (as claimed): extract_final_prompt is idempotent: applied to its own
\* result it returns that result unchanged, for every text over the alphabet.
C17_ExtractIdempotent ==
    Len(extracted) = 2 => extracted[2] = extracted[1]

\* generate has ended after a path obtained the whole text of the script:
\* the controller returned it, or subprocess.run exited with status 0.
WholeTextViaStream ==
    pc = "done" /\ calls.run = 0 /\ output = Text(Join(script.parts))
WholeTextViaFallback ==
    pc = "done" /\ runOutcome = [kind |-> "ok", text |-> Join(script.parts)]

\* C18 (as claimed): with include_reasoning false and a backend text made of
\* a reasoning block, whitespace, a label, whitespace and a body, generate
\* returns exactly the body, on the streaming path and on the fallback path
\* alike.
C18_ReasoningRemovedOnBothPaths ==
    (~include_reasoning /\ (WholeTextViaStream \/ WholeTextViaFallback)) =>
        (~hostRaised /\ result = <<script.body>>)

\* C19 (as claimed): each outcome of the fallback call gives its own result:
\* expiry the timed-out diagnostic, a missing executable the not-found
\* diagnostic, a non-zero exit the error diagnostic with the backend's error
\* text, output that is empty after sanitization the empty-result diagnostic,
\* any other output that output.
C19_FallbackOutcomeMapping ==
    LET clean == Sanitize(runOutcome.text, include_reasoning)
    IN  /\ runOutcome.kind = "timeout" => result = <<DiagTimedOut(timeout)>>
        /\ runOutcome.kind = "notfound" => result = <<DiagNotFound>>
        /\ runOutcome.kind = "nonzero" =>
              result = <<DiagOllamaError(runOutcome.text)>>
        /\ runOutcome.kind = "ok" =>
              result = IF clean = <<>> THEN <<DiagEmptyResult>> ELSE <<clean>>

\* The stall threshold of the phase the controller is in, tenths of a second.
PhaseThreshold ==
    IF got_first_chunk THEN 300 ELSE Min(6 * effective_timeout, 900)

\* C20: in every iteration of the loop the wait handed to join is
\* min(phase threshold, total timeout - elapsed), is strictly positive and
\* ends within the total timeout; the clock, which in one invocation advances
\* by the time spent in the waits, never passes the total timeout, so the
\* waits add up to at most the total timeout and the controller has stopped
\* waiting by then, however the fragments arrive.
C20_WaitsWithinTotalTimeout ==
    /\ pc = "join" =>
          /\ wait_time = Min(PhaseThreshold, 10 * effective_timeout - elapsed)
          /\ wait_time > 0
          /\ now = elapsed
          /\ elapsed + wait_time <= 10 * effective_timeout
    /\ pc \in {"loop_top", "join", "after_stream"} =>
          /\ elapsed <= now
          /\ now <= 10 * effective_timeout

C20_Witness ==
    /\ pc = "join"
    /\ got_first_chunk
    /\ Len(delivered) = 2
    /\ elapsed > 0
    /\ wait_time < 300
    /\ wait_time = 10 * effective_timeout - elapsed

\* The controller is inside its loop.
InLoop == pc \in {"loop_top", "join"}

\* A fragment whose text is empty has just been handled.
EmptyFragmentStep ==
    /\ pc = "join"
    /\ delivered' = Append(delivered, <<>>)

\* C21: throughout the streaming loop got_first_chunk is true exactly when
\* the accumulator is non-empty and chunk_count is the number of accumulated
\* fragments; the wait is taken from the threshold min(0.6 * total, 90 s)
\* exactly while the accumulator is empty and from 30 s afterwards (capped by
\* the remaining total); handling a fragment with empty text changes neither
\* the phase, the accumulator, the count nor the progress.
C21_PhaseFollowsAccumulator ==
    /\ [](InLoop => /\ got_first_chunk <=> chunks # <<>>
                    /\ chunk_count = Len(chunks))
    /\ [](pc = "join" =>
            wait_time = Min(IF chunks = <<>>
                            THEN Min(6 * effective_timeout, 900)
                            ELSE 300,
                            10 * effective_timeout - elapsed))
    /\ [][EmptyFragmentStep =>
            /\ InLoop'
            /\ UNCHANGED <<chunks, got_first_chunk, chunk_count, progress>>]_vars

C21_Witness ==
    /\ pc = "join"
    /\ Len(delivered) = 2
    /\ delivered[1] = <<>>
    /\ Len(chunks) = 1
    /\ got_first_chunk
    /\ progress = <<0, 5, 7>>
    /\ wait_time = 300

\* A backend path has produced an output: the controller returned a text, or
\* subprocess.run exited with status 0.
OutputObtained ==
    \/ ~output.isNone
    \/ runOutcome.kind = "ok"

\* C22: the values one invocation reports to the sink are within 0..100 and
\* never decrease: 0 first, then 5 after the health probe, then
\* min(5 + 2k, 95) after the k-th non-empty fragment, and 100 only as the
\* last value, once an output has been obtained from either path; while the
\* controller runs nothing above 95 has been reported.
C22_ProgressNonDecreasing ==
    LET n == Len(progress)
    IN  /\ \A i \in 1..n : progress[i] \in 0..100
        /\ \A i \in 1..(n - 1) : progress[i] <= progress[i + 1]
        /\ n >= 1 => progress[1] = 0
        /\ \A i \in 2..n :
              \/ /\ progress[i] = 100
                 /\ i = n
                 /\ pc = "done"
                 /\ OutputObtained
              \/ /\ apiAvailable
                 /\ progress[i] = IF i = 2 THEN 5 ELSE Min(5 + 2 * (i - 2), 95)
        /\ (InLoop /\ pbar) => n = 2 + chunk_count
        /\ pc \in {"stream_open", "loop_top", "join", "after_stream"} =>
              \A i \in 1..n : progress[i] <= 95

C22_Witness ==
    /\ pc = "done"
    /\ Len(progress) = 49
    /\ progress[46] = 93
    /\ progress[47] = 95
    /\ progress[48] = 95
    /\ progress[49] = 100
    /\ result = <<Join(script.parts)>>

\* ollama.generate or next(it) raised in this invocation.
BackendRaised == streamEnd = "error"

\* C23: when opening the stream or fetching a fragment raises, the controller
\* returns None at once, whatever it had accumulated; no further fragment is
\* fetched and no further streaming call made, and generate goes on to the
\* fallback call: its next step leads there, and when it has ended the
\* fallback call has been issued exactly once.
C23_BackendErrorFallsBack ==
    /\ [](BackendRaised =>
            /\ output = None
            /\ pc \in {"after_stream", "fallback", "done"}
            /\ fetchThread \in {"none", "finished"}
            /\ ~hostRaised
            /\ pc = "done" => (calls.run = 1 /\ runOutcome # NoRun))
    /\ [][BackendRaised =>
            /\ calls'.generate = calls.generate
            /\ fetchThread' = fetchThread
            /\ delivered' \in {delivered, <<>>}
            /\ pc = "after_stream" => pc' = "fallback"
            /\ pc = "fallback" => calls'.run = calls.run + 1]_vars

C23_Witness ==
    /\ BackendRaised
    /\ pc = "after_stream"
    /\ Len(chunks) = 2
    /\ output = None
    /\ result_holder = [error |-> "exc"]

\* The stream ended normally (the iterator was exhausted) and the controller
\* returned its text.
StreamReturnedText == streamEnd = "completed" /\ ~output.isNone

\* A backend path completed without error and its text is empty after
\* trimming and sanitization.
CompletedEmpty ==
    \/ /\ StreamReturnedText
       /\ Sanitize(output.text, include_reasoning) = <<>>
    \/ /\ runOutcome.kind = "ok"
       /\ Sanitize(runOutcome.text, include_reasoning) = <<>>

\* C24 (as claimed): generate returns the empty-result diagnostic exactly
\* when a backend path completed without error with a text that is empty
\* after trimming and sanitization; a stream that ends normally with an
\* empty accumulator leads to the fallback call, and a stream whose returned
\* text becomes empty yields the diagnostic without a fallback call.
C24_EmptyResultExactlyWhenEmpty ==
    (pc = "done" /\ prompt # NoPrompt) =>
        /\ result = <<DiagEmptyResult>> <=> CompletedEmpty
        /\ (streamEnd = "completed" /\ output.isNone) => calls.run = 1
        /\ (~output.isNone /\ Sanitize(output.text, include_reasoning) = <<>>)
              => (calls.run = 0 /\ result = <<DiagEmptyResult>>)

\* "None" stands in s as a token of its own: between whitespace or the ends
\* of the text.
HasStandaloneNone(s) ==
    \E i \in 1..Len(s) :
        /\ MatchAt(s, i, NoneToken)
        /\ i = 1 \/ s[i - 1] \in Whitespace
        /\ i + 3 = Len(s) \/ s[i + 4] \in Whitespace

\* s contains a reasoning marker or a boilerplate label.
HasMarker(s) ==
    \E i \in 1..Len(s) :
        \/ MatchAt(s, i, ThinkingStart)
        \/ MatchAt(s, i, PromptLabel)
        \/ MatchAt(s, i, SDPromptLabel)
        \/ MatchAt(s, i, ImagePromptLabel)

\* C25 (as claimed): for a text without reasoning markers, labels and
\* standalone "None" tokens, extract_final_prompt returns the text with only
\* its outer whitespace and surrounding double quotes trimmed.
C25_NoneRemovedOnlyAsToken ==
    (/\ Len(extracted) >= 1
     /\ ~HasMarker(raw_output)
     /\ ~HasStandaloneNone(raw_output))
        => extracted[1] = StripQuoted(raw_output)

\* Threads of this invocation that have not terminated.
AliveThreads == {k \in 1..Len(fetchThreads) : IsAlive(k)}

\* C26: within one invocation at most one fetch thread is alive (so at most
\* one advances the iterator), a thread being started only when every
\* earlier one has terminated; every holder content the controller reads was
\* written by the thread of that iteration, which had terminated; and after
\* a thread was found alive at its deadline the controller has returned,
\* starts no further thread and reads nothing any more, whatever the
\* abandoned thread writes later.
C26_OneFetchThreadAtATime ==
    /\ [](/\ Cardinality(AliveThreads) <= 1
          /\ AliveThreads \subseteq {Len(fetchThreads)}
          /\ \A i \in 1..Len(holderReads) :
                holderReads[i].by = i /\ ~IsAlive(i)
          /\ loopReturn = "timeout" =>
                (loopPc = "returned" /\ Len(holderReads) < Len(fetchThreads)))
    /\ [][loopReturn = "timeout" =>
            /\ Len(fetchThreads') = Len(fetchThreads)
            /\ holderReads' = holderReads
            /\ loopPc' = "returned"]_vars

C26_Witness ==
    /\ loopReturn = "timeout"
    /\ Len(fetchThreads) = 2
    /\ fetchThreads[2] = "terminated"
    /\ holder = [kind |-> "chunk", by |-> 2]
    /\ holderReads = <<[kind |-> "chunk", by |-> 1]>>

\* C27: a call whose fetch fails or yields no models returns the default
\* list and leaves _cached_models and _cache_time as it found them, also when
\* a stale list is stored (which is not returned in place of the default);
\* the default list is never stored, and the stored list is at every moment
\* absent or the non-empty sorted result of a fetch.
C27_FailedFetchLeavesCache ==
    LET c == call["t1"]
    IN  /\ (Returned("t1") /\ c.path = "default") =>
              /\ c.returned = DefaultModels
              /\ cached_models = c.entry.cached
              /\ cache_time = c.entry.time
              /\ FoundStored("t1") => c.returned # c.entry.cached.models
        /\ cached_models # Stored(DefaultModels)
        /\ \/ cached_models = NoList
           \/ /\ cached_models.stored
              /\ cached_models.models # <<>>
              /\ cached_models.models \in CompleteResults
        /\ cached_models = NoList => cache_time = 0

C27_Witness ==
    /\ Returned("t1")
    /\ call["t1"].path = "default"
    /\ call["t1"].contacts = 1
    /\ FoundStored("t1")
    /\ AgeSeen("t1") >= 60
    /\ call["t1"].returned = DefaultModels
    /\ cached_models = call["t1"].entry.cached
    /\ cache_time = call["t1"].entry.time

====
